---- MODULE Spec2Model ----
(***************************************************************************)
(* PWN_DRIVER (i2cServoPCA9685.py): a PCA9685 PWM servo driver speaking    *)
(* SMBus.  The controller is modelled together with a chip stub that       *)
(* stores the register values written to it and a bus on which any         *)
(* transaction may fail with IOError.                                      *)
(*                                                                         *)
(* Every public method is one action.  A method body is an operator over   *)
(* a call record m (registers, trace, pending exception, ...) and threads  *)
(* it through its statements in source order; a statement is skipped once  *)
(* an exception is pending, which is how Python unwinds to the enclosing   *)
(* except clause or out of the method.                                     *)
(*                                                                         *)
(* The module is Python 2 code (python-smbus, old-style class): `/` on two *)
(* ints is floor division.                                                 *)
(***************************************************************************)
EXTENDS Integers, Sequences, FiniteSets, TLC

VARIABLES
    regs,    \* chip stub: register address -> stored byte
    log,     \* trace of the last API call: calls, bus transactions, sleeps
    out,     \* diagnostics printed by the last API call
    exc,     \* exception the last API call ended with ("none": returned)
    calls,   \* number of API calls made so far
    DEBUG    \* the constructor's DEBUG argument

vars == <<regs, log, out, exc, calls, DEBUG>>

---------------------------------------------------------------------------
(* Bounds of the model.                                                    *)

MaxCalls == 2       \* API calls per behaviour
MaxFaults == 1      \* transient bus faults per API call (besides a dead bus)
HiFreq == 1000      \* setFreq sweep: 40..HiFreq
MaxTickIn == 4100   \* servo sweep: on/off in 0..MaxTickIn (12 bits end at 4095)
MaxChannelIn == 16  \* servo sweep: channel in 0..MaxChannelIn (chip has 0..15)
MaxDegIn == 185     \* turn_degrees sweep: deg in 0..MaxDegIn (servo range 0..180)

---------------------------------------------------------------------------
(* Constants set by __init__.                                              *)

DRIVER_ADDR == 64
MODE1 == 0
MODE2 == 1
PRESCALE == 254
LED0_ON_L == 6
LED0_ON_H == 7
LED0_OFF_L == 8
LED0_OFF_H == 9
ALL_LED_ON_L == 250
ALL_LED_ON_H == 251
ALL_LED_OFF_L == 252
ALL_LED_OFF_H == 253
RESTART == 128
SLEEP == 16
ALLCALL == 1
OUTDRV == 4
MAX_DEGREE == 180
MIN_PWR == 150
MAX_PWR == 600

\* The attributes __init__ binds on the instance.  self.Debug is not one.
InstanceAttrs ==
    {"DEBUG", "I2C_CHAN", "DRIVER_ADDR", "bus", "MODE1", "MODE2", "SUBADR1",
     "SUBADR2", "SUBADR3", "PRESCALE", "LED0_ON_L", "LED0_ON_H", "LED0_OFF_L",
     "LED0_OFF_H", "ALL_LED_ON_L", "ALL_LED_ON_H", "ALL_LED_OFF_L",
     "ALL_LED_OFF_H", "RESTART", "SLEEP", "ALLCALL", "INVRT", "OUTDRV",
     "MAX_DEGREE", "MIN_PWR", "MAX_PWR"}

---------------------------------------------------------------------------
(* Python values.                                                          *)

None == <<>>
Some(v) == <<v>>
PyInt(n) == [ty |-> "int", v |-> n]
\* A float, kept in thousandths (its exact value is never used: a float
\* operand of & or >> is a TypeError).
PyFloat(milli) == [ty |-> "float", v |-> milli]

\* Python's & | ~ on unbounded two's-complement ints.
RECURSIVE BitAnd(_, _)
BitAnd(a, b) ==
    IF a = 0 \/ b = 0 THEN 0
    ELSE IF a = -1 THEN b
    ELSE IF b = -1 THEN a
    ELSE (a % 2) * (b % 2) + 2 * BitAnd(a \div 2, b \div 2)

RECURSIVE BitOr(_, _)
BitOr(a, b) ==
    IF a = 0 THEN b
    ELSE IF b = 0 THEN a
    ELSE IF a = -1 \/ b = -1 THEN -1
    ELSE (IF a % 2 = 1 \/ b % 2 = 1 THEN 1 ELSE 0) + 2 * BitOr(a \div 2, b \div 2)

BitNot(a) == -a - 1

RECURSIVE ShiftRight(_, _)
ShiftRight(a, n) == IF n = 0 THEN a ELSE ShiftRight(a \div 2, n - 1)

---------------------------------------------------------------------------
(* The call record and the bus.                                            *)

Running(m) == m.exc = "none"
raise(m, e) == [m EXCEPT !.exc = e]
print(m, msg) == [m EXCEPT !.out = Append(@, msg)]

CallEv(fn, args) == [ev |-> "call", fn |-> fn, args |-> args]
BusEv(op, reg, val, ok) == [ev |-> op, addr |-> DRIVER_ADDR, reg |-> reg, val |-> val, ok |-> ok]
SleepEv(ms) == [ev |-> "sleep", ms |-> ms]

\* A nested method call: the callee's entry is recorded in the trace.
called(m, fn, args) ==
    IF Running(m) THEN [m EXCEPT !.log = Append(@, CallEv(fn, args))] ELSE m

\* The bus fails its next transaction when it is dead (no chip answers) or
\* when the transaction's index within the API call is in the fault plan.
Fails(m) == m.plan.dead \/ (m.ops + 1) \in m.plan.at

\* bus.write_byte_data(addr, reg, val): the stub stores val; a failed
\* transaction raises IOError and stores nothing.
write_byte_data(m, reg, val) ==
    IF ~Running(m) THEN m
    ELSE IF Fails(m)
    THEN [m EXCEPT !.ops = @ + 1, !.exc = "IOError",
                   !.log = Append(@, BusEv("write_byte_data", reg, val, FALSE))]
    ELSE [m EXCEPT !.ops = @ + 1, !.regs[reg] = val,
                   !.log = Append(@, BusEv("write_byte_data", reg, val, TRUE))]

\* bus.write_byte(addr, val): one byte, no register is stored.
write_byte(m, val) ==
    IF ~Running(m) THEN m
    ELSE IF Fails(m)
    THEN [m EXCEPT !.ops = @ + 1, !.exc = "IOError",
                   !.log = Append(@, BusEv("write_byte", -1, val, FALSE))]
    ELSE [m EXCEPT !.ops = @ + 1,
                   !.log = Append(@, BusEv("write_byte", -1, val, TRUE))]

\* bus.read_byte_data(addr, reg): the value read is left in m.ret.
read_byte_data(m, reg) ==
    IF ~Running(m) THEN m
    ELSE IF Fails(m)
    THEN [m EXCEPT !.ops = @ + 1, !.exc = "IOError",
                   !.log = Append(@, BusEv("read_byte_data", reg, -1, FALSE))]
    ELSE [m EXCEPT !.ops = @ + 1, !.ret = m.regs[reg],
                   !.log = Append(@, BusEv("read_byte_data", reg, m.regs[reg], TRUE))]

\* time.sleep(ms / 1000.0)
sleep(m, ms) ==
    IF Running(m) THEN [m EXCEPT !.log = Append(@, SleepEv(ms))] ELSE m

\* `if self.<attr>: print(msg)`: the attribute lookup raises AttributeError
\* when __init__ never bound the name.
ifAttrPrint(m, attr, msg) ==
    IF attr \notin InstanceAttrs THEN raise(m, "AttributeError")
    ELSE IF m.DEBUG # 0 THEN print(m, msg)
    ELSE m

\* The end of `try: ... except IOError: print(errmsg) else: if self.<attr>:
\* print(msg)`, m being the call record the try body ended with: IOError is
\* caught and reported, the else branch runs only when nothing was raised,
\* and any other exception propagates.
exceptElse(m, errmsg, attr, msg) ==
    IF m.exc = "IOError" THEN print(raise(m, "none"), errmsg)
    ELSE IF Running(m) THEN ifAttrPrint(m, attr, msg)
    ELSE m

---------------------------------------------------------------------------
(* setFreq                                                                 *)

\* Rounding slack of the float arithmetic, in units of 1/(128*freq): the
\* double computed by lines 137-141 differs from the exact value by less
\* than 10^-12, far less than one such unit for every freq below 10^6.
Rounding == {-1, 0, 1}

\* Faulty variant: the + 0.5 of line 141 left out (truncation instead of rounding).
PrescaleTruncated(freq, rnd) == (2 * (390625 - 64 * freq) + rnd) \div (128 * freq)

\* presc = floor(25000000.0/4096.0/freq - 1.0 + 0.5), then int(floor(presc)).
\* 25000000/4096 = 390625/64 exactly, so presc + 0.5 before the floor is
\* (390625 - 32*freq)/(64*freq), here with the rounding slack rnd/(128*freq).
Prescale(freq, rnd) == (2 * (390625 - 32 * freq) + rnd) \div (128 * freq)

\* The values int(math.floor(presc)) can take for freq.
Prescales(freq) == {Prescale(freq, rnd) : rnd \in Rounding}

\* Faulty variant: the sleep bit is not set before the prescaler is written.
SleepModeNoSleepBit(oldm) == BitAnd(oldm, 127)

\* newm = (oldm & 0x7F) | 0x10
SleepMode(oldm) == BitOr(BitAnd(oldm, 127), 16)

\* Faulty variant: the restart is written over newm instead of oldm.
RestartModeOverNewm(oldm) == BitOr(SleepMode(oldm), 128)

\* oldm | 0x80
RestartMode(oldm) == BitOr(oldm, 128)

\* presc: the value lines 137-141 and 149 compute, one of Prescales(freq).
setFreq(m, freq, presc) ==
    IF ~Running(m) THEN m
    ELSE
    LET s1 == read_byte_data(m, MODE1)
        oldm == s1.ret
        newm == SleepMode(oldm)
        t1 == write_byte_data(s1, MODE1, newm)
        t2 == write_byte_data(t1, PRESCALE, presc)
        t3 == write_byte_data(t2, MODE1, oldm)
        t4 == sleep(t3, 5)
        t5 == write_byte_data(t4, MODE1, RestartMode(oldm))
    IN  IF ~Running(s1) THEN s1
        ELSE exceptElse(t5, "setFreq gave errors", "Debug", "Frequency set")

---------------------------------------------------------------------------
(* initialize                                                              *)

\* Faulty variant: the high byte shifted by a nibble.
HighByteNibble(x) == ShiftRight(x, 4)

\* on & 0xFF, on >> 8
LowByte(x) == BitAnd(x, 255)
HighByte(x) == ShiftRight(x, 8)

\* mode1 & ~self.SLEEP
WakeMode(mode1) == BitAnd(mode1, BitNot(SLEEP))

\* The try body, lines 85-115.
initTry(m) ==
    LET t1 == write_byte(m, LED0_ON_L)
        t2 == write_byte_data(t1, ALL_LED_ON_L, LowByte(0))
        t3 == write_byte_data(t2, ALL_LED_ON_H, HighByte(0))
        t4 == write_byte_data(t3, ALL_LED_OFF_L, LowByte(0))
        t5 == write_byte_data(t4, ALL_LED_OFF_H, LowByte(0))
        t6 == write_byte_data(t5, MODE2, OUTDRV)
        t7 == write_byte_data(t6, MODE1, ALLCALL)
        t8 == sleep(t7, 5)
        t9 == read_byte_data(t8, MODE1)
        t10 == write_byte_data(t9, MODE1, WakeMode(t9.ret))
    IN  sleep(t10, 5)

\* Faulty variant: setFreq(60) inside the try, skipped by a failure before it.
initializeSetFreqInTry(m, presc) ==
    LET t == initTry(m)
        h == exceptElse(t, "initialize gave errors",
                        "DEBUG", "Done intializing the driver")
    IN  IF Running(t) THEN setFreq(called(h, "setFreq", <<60>>), 60, presc) ELSE h

\* presc: the prescaler setFreq(60) computes, one of Prescales(60).
initialize(m, presc) ==
    LET h == exceptElse(initTry(m), "initialize gave errors",
                        "DEBUG", "Done intializing the driver")
    IN  setFreq(called(h, "setFreq", <<60>>), 60, presc)

---------------------------------------------------------------------------
(* servo                                                                   *)

\* A register write whose value is `x & 0xFF` or `x >> 8`: the operand is
\* evaluated first, and a float operand raises TypeError.
write_part(m, reg, x, part) ==
    IF ~Running(m) THEN m
    ELSE IF x.ty # "int" THEN raise(m, "TypeError")
    ELSE write_byte_data(m, reg, IF part = "low" THEN LowByte(x.v) ELSE HighByte(x.v))

servo(m, channel, on, off) ==
    IF ~Running(m) THEN m
    ELSE
    LET t1 == write_part(m, LED0_ON_L + 4 * channel, on, "low")
        t2 == write_part(t1, LED0_ON_H + 4 * channel, on, "high")
        t3 == write_part(t2, LED0_OFF_L + 4 * channel, off, "low")
        t4 == write_part(t3, LED0_OFF_H + 4 * channel, off, "high")
    IN  exceptElse(t4, "Channel gave errors", "Debug", "Servo on channel set")

---------------------------------------------------------------------------
(* turn_degrees                                                            *)

\* Faulty variant: only the channel is checked.
MissingArgsChannelOnly(channel, deg, rad) == channel = None

\* channel is None or (deg is None and rad is None)
MissingArgs(channel, deg, rad) == channel = None \/ (deg = None /\ rad = None)

\* Faulty variant: the division done before the multiplication.
PulseOfDegreesDivFirst(deg) == MIN_PWR + (MAX_PWR - MIN_PWR) * (deg \div MAX_DEGREE)

\* MIN_PWR + SP * deg / MAX_DEGREE on ints: floor division.
PulseOfDegrees(deg) == MIN_PWR + ((MAX_PWR - MIN_PWR) * deg) \div MAX_DEGREE

\* MIN_PWR + SP * rad / math.radians(MAX_DEGREE), a float; rad is given in
\* quarters of pi, so SP * rad / pi is SP * q / 4.
PulseOfRadians(q) == PyFloat(1000 * MIN_PWR + (1000 * (MAX_PWR - MIN_PWR) * q) \div 4)

turn_degrees(m, channel, deg, rad) ==
    IF ~Running(m) THEN m
    ELSE IF MissingArgs(channel, deg, rad)
    THEN print(m, "You need to input some channel and degree's")
    ELSE IF deg = None /\ rad = None
    THEN raise(m, "UnboundLocalError")  \* neither branch binds turn_degree
    ELSE
    LET turn_degree == IF deg # None THEN PyInt(PulseOfDegrees(deg[1]))
                       ELSE PulseOfRadians(rad[1])
        d == IF m.DEBUG # 0 THEN print(m, "Turns") ELSE m
        args == <<channel[1], PyInt(0), turn_degree>>
    IN  servo(called(d, "servo", args), channel[1], PyInt(0), turn_degree)

---------------------------------------------------------------------------
(* test_servo                                                              *)

\* range(0, 15)
TestChannels == 15

turn(m, i, deg) ==
    turn_degrees(called(m, "turn_degrees", <<Some(i), Some(deg), None>>),
                 Some(i), Some(deg), None)

testBody(m, i) ==
    LET t1 == sleep(turn(m, i, 90), 2000)
        t2 == sleep(turn(t1, i, 0), 2000)
        t3 == sleep(turn(t2, i, 90), 2000)
        t4 == sleep(turn(t3, i, 180), 2000)
    IN  turn(t4, i, 90)

RECURSIVE testLoop(_, _)
testLoop(m, i) ==
    IF i >= TestChannels \/ ~Running(m) THEN m
    ELSE testLoop(testBody(m, i), i + 1)

test_servo(m) == testLoop(m, 0)

---------------------------------------------------------------------------
(* Fault plans: which bus transactions of an API call fail.                *)

RECURSIVE UpTo(_, _)
UpTo(n, k) ==
    IF k = 0 THEN {{}}
    ELSE LET S == UpTo(n, k - 1) IN S \cup {T \cup {i} : T \in S, i \in 1..n}

\* n: the most bus transactions the call can issue before its last fault.
FaultPlans(n) ==
    {[dead |-> TRUE, at |-> {}]} \cup {[dead |-> FALSE, at |-> S] : S \in UpTo(n, MaxFaults)}

NoFaults == [dead |-> FALSE, at |-> {}]

\* Bus transactions per call: servo 4, setFreq 5, initialize 9 + setFreq's.
\* test_servo reaches its next command only when the last one hit a fault,
\* so with MaxFaults faults it issues at most 4 * (MaxFaults + 1).
ServoBusOps == 4
SetFreqBusOps == 5
InitBusOps == 14
ServoPlans == FaultPlans(ServoBusOps)
SetFreqPlans == FaultPlans(SetFreqBusOps)
InitPlans == FaultPlans(InitBusOps)
TestPlans == FaultPlans(ServoBusOps * (MaxFaults + 1))

---------------------------------------------------------------------------
(* The state machine.                                                      *)

Regs == 0..255
InitMODE1 == {0, 17}    \* stub cleared, or the chip's power-on MODE1

\* PWN_DRIVER(): opens the bus and touches no register.
Init ==
    /\ \E m1 \in InitMODE1 : regs = [r \in Regs |-> IF r = MODE1 THEN m1 ELSE 0]
    /\ log = <<>>
    /\ out = <<>>
    /\ exc = "none"
    /\ calls = 0
    /\ DEBUG \in {0, 1}

Enter(fn, args, plan) ==
    [regs |-> regs, log |-> <<CallEv(fn, args)>>, out |-> <<>>, exc |-> "none",
     ops |-> 0, ret |-> 0, plan |-> plan, DEBUG |-> DEBUG]

Finish(m) ==
    /\ regs' = m.regs
    /\ log' = m.log
    /\ out' = m.out
    /\ exc' = m.exc
    /\ calls' = calls + 1
    /\ UNCHANGED DEBUG

\* Arguments of the API calls.
Freqs == {50, 60}
Channels == {0, 15}
OnTicks == {0}
OffTicks == {375, 4095}
OptChannels == {None, Some(0)}
OptDegs == {None, Some(90)}
OptRads == {None, Some(2)}

Initialize ==
    /\ calls < MaxCalls
    /\ \E plan \in InitPlans, presc \in Prescales(60) :
          Finish(initialize(Enter("initialize", <<>>, plan), presc))

SetFreq ==
    /\ calls < MaxCalls
    /\ \E freq \in Freqs, plan \in SetFreqPlans :
          \E presc \in Prescales(freq) :
             Finish(setFreq(Enter("setFreq", <<freq>>, plan), freq, presc))

Servo ==
    /\ calls < MaxCalls
    /\ \E channel \in Channels, on \in OnTicks, off \in OffTicks, plan \in ServoPlans :
          Finish(servo(Enter("servo", <<channel, PyInt(on), PyInt(off)>>, plan),
                       channel, PyInt(on), PyInt(off)))

TurnDegrees ==
    /\ calls < MaxCalls
    /\ \E channel \in OptChannels, deg \in OptDegs, rad \in OptRads, plan \in ServoPlans :
          Finish(turn_degrees(Enter("turn_degrees", <<channel, deg, rad>>, plan),
                              channel, deg, rad))

TestServo ==
    /\ calls < MaxCalls
    /\ \E plan \in TestPlans : Finish(test_servo(Enter("test_servo", <<>>, plan)))

Next == Initialize \/ SetFreq \/ Servo \/ TurnDegrees \/ TestServo

Spec == Init /\ [][Next]_vars

---------------------------------------------------------------------------
(* Sweeps: one method applied once to a freshly constructed controller,    *)
(* over the whole range of its arguments.                                  *)

SweepFreqs == 30..HiFreq
SweepChannels == 0..MaxChannelIn
TickSamples == {0, 255, 256, 4095}
SweepTicks ==
    {<<t, u>> : t \in 0..MaxTickIn, u \in TickSamples}
        \cup {<<u, t>> : t \in 0..MaxTickIn, u \in TickSamples}
SweepDegs == 0..MaxDegIn

\* The servo sweep starts from the cleared stub with the default DEBUG=0.
SweepInit == Init /\ DEBUG = 0 /\ regs[MODE1] = 0

SweepSetFreq ==
    /\ calls = 0
    /\ \E freq \in SweepFreqs, plan \in SetFreqPlans :
          \E presc \in Prescales(freq) :
             Finish(setFreq(Enter("setFreq", <<freq>>, plan), freq, presc))

SweepServo ==
    /\ calls = 0
    /\ \E channel \in SweepChannels, t \in SweepTicks :
          Finish(servo(Enter("servo", <<channel, PyInt(t[1]), PyInt(t[2])>>, NoFaults),
                       channel, PyInt(t[1]), PyInt(t[2])))

SweepTurnDegrees ==
    /\ calls = 0
    /\ \E channel \in SweepChannels, deg \in SweepDegs, plan \in ServoPlans :
          Finish(turn_degrees(Enter("turn_degrees", <<Some(channel), Some(deg), None>>, plan),
                              Some(channel), Some(deg), None))

SpecFreq == Init /\ [][SweepSetFreq]_vars
SpecServo == SweepInit /\ [][SweepServo]_vars
SpecAngle == Init /\ [][SweepTurnDegrees]_vars

---------------------------------------------------------------------------
(* Reading the trace of the last API call.                                 *)

IsBus(e) == e.ev \in {"write_byte_data", "write_byte", "read_byte_data"}
IsWrite(e, reg) == e.ev = "write_byte_data" /\ e.reg = reg
IsCall(fn) == log # <<>> /\ log[1].fn = fn
Args == log[1].args
AllOk(s) == \A i \in 1..Len(s) : IsBus(s[i]) => s[i].ok
FaultFree == AllOk(log)
CallsOf(fn) == SelectSeq(Tail(log), LAMBDA e : e.ev = "call" /\ e.fn = fn)
Bit(v, b) == (v \div b) % 2

\* floor(25000000/4096/f - 1 + 1/2) in exact rational arithmetic.
RefPrescale(f) == (50000000 - 4096 * f) \div (8192 * f)

\* The part of the trace that belongs to setFreq: what follows its entry.
HasSetFreq == \E i \in 1..Len(log) : log[i].ev = "call" /\ log[i].fn = "setFreq"
SetFreqAt == CHOOSE i \in 1..Len(log) : log[i].ev = "call" /\ log[i].fn = "setFreq"
FreqPart == SubSeq(log, SetFreqAt + 1, Len(log))

---------------------------------------------------------------------------
(* C1: a call of initialize(), setFreq(freq) or servo(channel, on, off)   *)
(* that ends on a bus operation failing with an I/O error still returns    *)
(* normally, whichever operation it is: the error does not reach the       *)
(* caller.                                                                 *)
C1_NoErrorPropagates ==
    (/\ log # <<>> /\ log[1].fn \in {"initialize", "setFreq", "servo"}
     /\ IsBus(log[Len(log)]) /\ ~log[Len(log)].ok)
        => exc = "none"

(* C2: from a freshly constructed controller on a fault-free stub,         *)
(* initialize() followed by turn_degrees(0, deg=90) runs to completion and *)
(* makes exactly one servo call, servo(0, 0, 375), whose four register     *)
(* writes reach the bus.                                                   *)
C2_InitThenTurn90 ==
    [][(/\ calls = 1 /\ IsCall("initialize") /\ FaultFree
        /\ calls' = 2 /\ log'[1] = CallEv("turn_degrees", <<Some(0), Some(90), None>>)
        /\ AllOk(log'))
       => (/\ exc = "none"
           /\ exc' = "none"
           /\ SelectSeq(Tail(log'), LAMBDA e : e.ev = "call")
                 = <<CallEv("servo", <<0, PyInt(0), PyInt(375)>>)>>
           /\ Len(SelectSeq(log', LAMBDA e : e.ev = "write_byte_data" /\ e.ok)) = 4)]_vars

(* C3: when initialize() has run on a fault-free bus, the MODE1 sleep bit  *)
(* is clear, the four all-channel registers have been written with 0 and   *)
(* hold 0, and PRESCALE holds the prescaler of 60 Hz.                      *)
C3_InitConfiguresChip ==
    (IsCall("initialize") /\ FaultFree) =>
        /\ Bit(regs[0], 16) = 0
        /\ \A r \in 250..253 :
              /\ \E i \in 1..Len(log) : IsWrite(log[i], r) /\ log[i].val = 0 /\ log[i].ok
              /\ regs[r] = 0
        /\ regs[254] = RefPrescale(60)

C3_Witness ==
    /\ IsCall("initialize") /\ FaultFree
    /\ Len(log) = 19
    /\ regs[0] = 129 /\ regs[1] = 4 /\ regs[254] = 101

(* C4 (amended): for every integer freq in 40..1000, setFreq(freq) writes  *)
(* to PRESCALE only floor(25000000/4096/freq - 1 + 0.5), and writes it     *)
(* exactly once when no bus operation fails; setFreq(60) writes 101.       *)
C4_PrescaleWritten ==
    (IsCall("setFreq") /\ Args[1] \in 40..1000) =>
        /\ \A i \in 1..Len(log) :
              IsWrite(log[i], 254) =>
                  /\ log[i].val = RefPrescale(Args[1])
                  /\ Args[1] = 60 => log[i].val = 101
        /\ FaultFree =>
              Len(SelectSeq(log, LAMBDA e : IsWrite(e, 254) /\ e.ok)) = 1

C4_Witness ==
    /\ IsCall("setFreq") /\ Args = <<60>> /\ FaultFree
    /\ \E i \in 1..Len(log) : log[i] = BusEv("write_byte_data", 254, 101, TRUE)
    /\ regs[254] = 101

(* C4 as stated: the value written is floor(25000000/4096/freq - 1 + 0.5), *)
(* and setFreq(60) writes 120.                                             *)
C4_AsStated ==
    (IsCall("setFreq") /\ Args[1] \in 40..1000) =>
        \A i \in 1..Len(log) :
            IsWrite(log[i], 254) =>
                /\ log[i].val = RefPrescale(Args[1])
                /\ Args[1] = 60 => log[i].val = 120

(* C5: for channel in 0..15 and on, off in 0..4095, servo(channel, on,     *)
(* off) on a fault-free bus issues exactly four register writes, ON-low,   *)
(* ON-high, OFF-low, OFF-high, to 0x06.. 0x09 + 4*channel; every value is  *)
(* a byte, high*256 + low gives back on (resp. off), and no register       *)
(* outside 0x06..0x45 is written.                                          *)
C5_ServoWrites ==
    (/\ IsCall("servo") /\ FaultFree
     /\ Args[1] \in 0..15 /\ Args[2].v \in 0..4095 /\ Args[3].v \in 0..4095) =>
        LET ch == Args[1]
            w == Tail(log)
        IN  /\ Len(w) = 4
            /\ \A k \in 1..4 :
                  /\ w[k].ev = "write_byte_data" /\ w[k].ok
                  /\ w[k].reg = 6 + 4 * ch + (k - 1)
                  /\ w[k].val \in 0..255
                  /\ w[k].reg \in 6..69
                  /\ w[k].reg \notin {0, 1, 254, 250, 251, 252, 253}
                  /\ regs[w[k].reg] = w[k].val
            /\ w[2].val * 256 + w[1].val = Args[2].v
            /\ w[4].val * 256 + w[3].val = Args[3].v

C5_Witness ==
    /\ IsCall("servo") /\ FaultFree
    /\ Args = <<2, PyInt(256), PyInt(4095)>>
    /\ Len(log) = 5
    /\ regs[14] = 0 /\ regs[15] = 1 /\ regs[16] = 255 /\ regs[17] = 15

(* C6 (amended): for every integer deg in 0..180 and every channel,        *)
(* turn_degrees(channel, deg=deg) calls servo exactly once with on = 0 and *)
(* off = 150 + floor(450*deg/180); deg = 0, 90, 180 give 150, 375, 600,    *)
(* and off is an integer tick in [150, 600], within 12 bits.               *)
C6_PulseOfDegrees ==
    (/\ IsCall("turn_degrees") /\ Args[1] # None /\ Args[2] # None
     /\ Args[2][1] \in 0..180) =>
        LET deg == Args[2][1]
            c == CallsOf("servo")
        IN  /\ Len(c) = 1
            /\ c[1].args[1] = Args[1][1]
            /\ c[1].args[2] = PyInt(0)
            /\ c[1].args[3] = PyInt(150 + (450 * deg) \div 180)
            /\ c[1].args[3].v \in 150..600
            /\ c[1].args[3].v < 4096
            /\ deg = 0 => c[1].args[3].v = 150
            /\ deg = 90 => c[1].args[3].v = 375
            /\ deg = 180 => c[1].args[3].v = 600

C6_Witness ==
    /\ IsCall("turn_degrees") /\ Args = <<Some(3), Some(45), None>>
    /\ CallsOf("servo") = <<CallEv("servo", <<3, PyInt(0), PyInt(262)>>)>>
    /\ FaultFree /\ Len(log) = 6

(* C6 as stated: the off value passed to servo is an integer tick equal to *)
(* 150 + 450*deg/180.                                                      *)
C6_AsStated ==
    (/\ IsCall("turn_degrees") /\ Args[1] # None /\ Args[2] # None
     /\ Args[2][1] \in 0..180) =>
        LET c == CallsOf("servo")
        IN  /\ Len(c) = 1
            /\ c[1].args[2] = PyInt(0)
            /\ c[1].args[3].ty = "int"
            /\ 180 * (c[1].args[3].v - 150) = 450 * Args[2][1]
            /\ c[1].args[3].v \in 150..600

(* C7: in any state, turn_degrees called with no channel, or with neither  *)
(* deg nor rad, performs no bus transaction, makes no servo call, does not *)
(* raise, and leaves the chip registers unchanged.                         *)
C7_MissingArgsNoBus ==
    [][(/\ calls' = calls + 1
        /\ log'[1].fn = "turn_degrees"
        /\ \/ log'[1].args[1] = <<>>
           \/ (log'[1].args[2] = <<>> /\ log'[1].args[3] = <<>>))
       => (Len(log') = 1 /\ exc' = "none" /\ regs' = regs)]_vars

C7_Witness ==
    /\ calls = 2
    /\ IsCall("turn_degrees") /\ Args = <<Some(0), None, None>>
    /\ Len(log) = 1 /\ exc = "none"
    /\ regs[254] = 101 /\ regs[0] = 129

(* C8: on a fault-free bus setFreq issues: read MODE1 (oldm); write MODE1  *)
(* with the sleep bit set and the restart bit clear; write PRESCALE; write *)
(* MODE1 = oldm; sleep 5 ms; write MODE1 = oldm | 0x80.  In every run a    *)
(* PRESCALE write follows a MODE1 write of the call with the sleep bit     *)
(* set, and nothing is issued after a failed transaction.                  *)
C8_SetFreqOrder ==
    HasSetFreq =>
        LET p == FreqPart
            n == Len(p)
        IN  /\ AllOk(p) =>
                  /\ n = 6
                  /\ p[1].ev = "read_byte_data" /\ p[1].reg = 0
                  /\ IsWrite(p[2], 0) /\ Bit(p[2].val, 16) = 1 /\ Bit(p[2].val, 128) = 0
                  /\ IsWrite(p[3], 254)
                  /\ IsWrite(p[4], 0) /\ p[4].val = p[1].val
                  /\ p[5] = SleepEv(5)
                  /\ IsWrite(p[6], 0)
                  /\ p[6].val = p[1].val + 128 * (1 - Bit(p[1].val, 128))
            /\ \A j \in 1..n :
                  IsWrite(p[j], 254) =>
                      \E i \in 1..(j - 1) :
                          /\ IsWrite(p[i], 0) /\ p[i].ok /\ Bit(p[i].val, 16) = 1
                          /\ \A k \in (i + 1)..(j - 1) : ~IsWrite(p[k], 0)
            /\ \A j \in 1..n : (IsBus(p[j]) /\ ~p[j].ok) => j = n

C8_Witness ==
    /\ calls = 2 /\ IsCall("setFreq") /\ FaultFree
    /\ Len(log) = 7
    /\ log[2].val = 129
    /\ log[3].val = 17

(* C9: initialize() issues, in this order: the reset probe write_byte, the *)
(* four all-channel zero writes, MODE2 := OUTDRV, MODE1 := ALLCALL, sleep  *)
(* 5 ms, read MODE1 and its write-back with the sleep bit cleared, sleep   *)
(* 5 ms, then setFreq(60).  A failed bus operation skips the rest of the   *)
(* steps before setFreq, and setFreq(60) is called exactly once in every   *)
(* run.                                                                    *)
InitSteps ==
    << [ev |-> "write_byte", reg |-> -1, val |-> 6],
       [ev |-> "write_byte_data", reg |-> 250, val |-> 0],
       [ev |-> "write_byte_data", reg |-> 251, val |-> 0],
       [ev |-> "write_byte_data", reg |-> 252, val |-> 0],
       [ev |-> "write_byte_data", reg |-> 253, val |-> 0],
       [ev |-> "write_byte_data", reg |-> 1, val |-> 4],
       [ev |-> "write_byte_data", reg |-> 0, val |-> 1],
       [ev |-> "sleep"],
       [ev |-> "read_byte_data", reg |-> 0],
       [ev |-> "write_byte_data", reg |-> 0],
       [ev |-> "sleep"] >>

InitStepMatches(pre, k) ==
    /\ pre[k].ev = InitSteps[k].ev
    /\ k \in {8, 11} => pre[k] = SleepEv(5)
    /\ k \notin {8, 11} => pre[k].reg = InitSteps[k].reg
    /\ k \in 1..7 => pre[k].val = InitSteps[k].val
    /\ k = 10 => pre[k].val = pre[9].val - 16 * Bit(pre[9].val, 16)

C9_InitOrder ==
    IsCall("initialize") =>
        /\ CallsOf("setFreq") = <<CallEv("setFreq", <<60>>)>>
        /\ LET pre == SubSeq(log, 2, SetFreqAt - 1)
               n == Len(pre)
           IN  /\ n <= 11
               /\ \A k \in 1..n : InitStepMatches(pre, k)
               /\ \A k \in 1..(n - 1) : IsBus(pre[k]) => pre[k].ok
               /\ n < 11 => (n >= 1 /\ IsBus(pre[n]) /\ ~pre[n].ok)
               /\ n = 11 => AllOk(pre)

C9_Witness ==
    /\ IsCall("initialize")
    /\ SetFreqAt = 8
    /\ log[7] = BusEv("write_byte_data", 1, 4, FALSE)
    /\ Len(log) = 14
    /\ AllOk(FreqPart)

(* C10: test_servo() terminates and drives exactly channels 0..14 in       *)
(* increasing order, each through the angles 90, 0, 90, 180, 90 (75        *)
(* turn_degrees calls), with a 2-second sleep between every two            *)
(* consecutive commands.                                                   *)
TestAngles == <<90, 0, 90, 180, 90>>

C10_SelfTestSweep ==
    IsCall("test_servo") =>
        LET s == SelectSeq(Tail(log),
                           LAMBDA e : e.ev = "sleep" \/ (e.ev = "call" /\ e.fn = "turn_degrees"))
        IN  /\ exc = "none"
            /\ Len(s) = 149
            /\ \A k \in 1..75 :
                  s[2 * k - 1] = CallEv("turn_degrees",
                                        <<Some((k - 1) \div 5), Some(TestAngles[((k - 1) % 5) + 1]), None>>)
            /\ \A k \in 1..74 : s[2 * k] = SleepEv(2000)

====
